---- MODULE Spec2Model ----
(***************************************************************************)
(* hsyclass.py: HSYdatabase (construction, xmltodict, create_addressdict,  *)
(* lookups) and Property (__init__, address).                              *)
(*                                                                         *)
(* Python strings are sequences of one-character strings, so that          *)
(* tag.split('}'), 'tun' in key and float(text) are computed rather than   *)
(* assumed.  A Python float is a fixed-point integer counting units of     *)
(* 1/Scale; the texts used have at most seven decimals and none lies on    *)
(* the 1e-6 boundary, so the fixed-point value decides every comparison    *)
(* the way the double does.                                                *)
(***************************************************************************)
EXTENDS Integers, Sequences, FiniteSets, TLC

VARIABLES
    mode,        \* how __init__ was called: "file", "stream" or "download"
    file,        \* <<the XML document stored at fname>>, or NoDoc
    server,      \* <<the XML document the wfs server answers with>>, or NoDoc
    pc,          \* "init", "flatten", "index", "done" (caller has the object), "crashed"
    stack,       \* xmltodict's recursion: frames [node, i], innermost last
    properties,  \* self.properties: identifier -> Property
    propkeys,    \* insertion order of self.properties (a dict is ordered)
    duplicates,  \* self.duplicates
    address,     \* self.address: street -> number -> list of identifiers
    k,           \* create_addressdict's position in properties.items()
    calls,       \* build methods the caller has called since __init__ returned
    seen,        \* every propdata dict xmltodict has built, in order
    err,         \* the exception the current/last build call raised, or "none"
    result       \* what the last lookup gave the caller

vars == <<mode, file, server, pc, stack, properties, propkeys, duplicates,
          address, k, calls, seen, err, result>>

(***************************************************************************)
(* Bounds                                                                  *)
(***************************************************************************)
\* children of the root element of a generated document
MaxKids == 2
\* build-method calls the caller makes on the finished object
MaxCalls == 1

(***************************************************************************)
(* Python values                                                           *)
(***************************************************************************)
None == <<"none">>
StrV(s) == <<"str", s>>
IntV(n) == <<"int", n>>
FloatV(x) == <<"float", x>>

\* units per 1.0 of the fixed-point floats
Scale == 10 * 1000000
\* the tolerance 1e-6 of Property.__init__, in units
Eps == Scale \div 1000000

Digits == <<"0", "1", "2", "3", "4", "5", "6", "7", "8", "9">>
IsDigit(c) == \E d \in 1..10 : Digits[d] = c
DigitVal(c) == (CHOOSE d \in 1..10 : Digits[d] = c) - 1

RECURSIVE Pow10(_)
Pow10(n) == IF n = 0 THEN 1 ELSE 10 * Pow10(n - 1)

RECURSIVE DigitsVal(_)
DigitsVal(s) ==
    IF s = <<>> THEN 0
    ELSE 10 * DigitsVal(SubSeq(s, 1, Len(s) - 1)) + DigitVal(s[Len(s)])

DotAt(s) == {i \in 1..Len(s) : s[i] = "."}

\* float(text): [ok, v].  Grammar: [-] digits [. digits] | [-] . digits,
\* at most seven decimals (the resolution of Scale).
\* None raises TypeError, any other text ValueError: both ok = FALSE.
\* (The texts of the documents below hold no exponent, "inf", "nan",
\* blank or "+", which float() would also accept.)
ParseFloat(val) ==
    IF val[1] # "str" THEN [ok |-> FALSE, v |-> 0]
    ELSE
    LET t    == val[2]
        neg  == Len(t) > 0 /\ t[1] = "-"
        body == IF neg THEN SubSeq(t, 2, Len(t)) ELSE t
        dots == DotAt(body)
        dot  == IF dots = {} THEN Len(body) + 1 ELSE CHOOSE i \in dots : TRUE
        ip   == SubSeq(body, 1, dot - 1)
        fp   == SubSeq(body, dot + 1, Len(body))
        wellformed ==
            /\ Cardinality(dots) <= 1
            /\ Len(ip) + Len(fp) > 0
            /\ \A i \in 1..Len(ip) : IsDigit(ip[i])
            /\ \A i \in 1..Len(fp) : IsDigit(fp[i])
            /\ Len(fp) <= 7
        mag  == DigitsVal(ip) * Scale + DigitsVal(fp) * Pow10(7 - Len(fp))
    IN  IF wellformed
        THEN [ok |-> TRUE, v |-> IF neg THEN 0 - mag ELSE mag]
        ELSE [ok |-> FALSE, v |-> 0]

\* numpy.mod(value, 1): the remainder has the sign of the divisor
Mod1(x) == x % Scale
\* int(value): truncation towards zero
PyInt(x) == IF x >= 0 THEN x \div Scale ELSE 0 - ((0 - x) \div Scale)

(***************************************************************************)
(* Property                                                                *)
(***************************************************************************)
vtj_prt == <<"v", "t", "j", "_", "p", "r", "t">>
posno == <<"p", "o", "s", "n", "o">>
katu == <<"k", "a", "t", "u">>
osno1 == <<"o", "s", "n", "o", "1">>
kiitun == <<"k", "i", "i", "t", "u", "n">>
kerala == <<"k", "e", "r", "a", "l", "a">>
tun == <<"t", "u", "n">>

\* sub in s, for Python strings
Contains(s, sub) ==
    \E i \in 1..(Len(s) - Len(sub) + 1) : SubSeq(s, i, i + Len(sub) - 1) = sub

\* ('tun' in key) or (key in ['vtj_prt', 'posno'])
IsIdentifierKey(key) == Contains(key, tun) \/ key \in {vtj_prt, posno}

\* the local variable value after the try block: float(value) rebinds it
\* when the cast succeeds
ValueAfterCast(raw) ==
    LET p == ParseFloat(raw) IN IF p.ok THEN FloatV(p.v) ELSE raw

\* what the try/except sets the attribute to
CastAttr(raw) ==
    LET p == ParseFloat(raw)
    IN  IF p.ok
        THEN IF Mod1(p.v) < Eps THEN IntV(PyInt(p.v)) ELSE FloatV(p.v)
        ELSE raw

\* the attribute as the loop body leaves it
AttrValue(key, raw) ==
    IF IsIdentifierKey(key) THEN ValueAfterCast(raw) ELSE CastAttr(raw)

\* Property(propertydict): the attributes of the new object
Property(propertydict) ==
    [key \in DOMAIN propertydict |-> AttrValue(key, propertydict[key])]

HasAttr(p, key) == key \in DOMAIN p

\* mutant: the except branch gives up on the field that is present
PropertyAddressAllOrNothing(p) ==
    IF HasAttr(p, katu) /\ HasAttr(p, osno1) THEN <<p[katu], p[osno1]>>
    ELSE <<None, None>>

\* Property.address()
PropertyAddress(p) ==
    IF HasAttr(p, katu) /\ HasAttr(p, osno1) THEN <<p[katu], p[osno1]>>
    ELSE IF HasAttr(p, katu) THEN <<p[katu], None>>
    ELSE IF HasAttr(p, osno1) THEN <<None, p[osno1]>>
    ELSE <<None, None>>

(***************************************************************************)
(* Dictionaries and documents                                              *)
(***************************************************************************)
EmptyDict == <<>>

\* d[key] = v
DictSet(d, key, v) ==
    [x \in DOMAIN d \cup {key} |-> IF x = key THEN v ELSE d[x]]

\* the key order of a dict after d[key] = v: a new key goes last
KeysAfterSet(keys, key) ==
    IF \E i \in 1..Len(keys) : keys[i] = key THEN keys ELSE Append(keys, key)

\* tag.split('}')[-1]
TagName(tag) ==
    LET braces == {i \in 1..Len(tag) : tag[i] = "}"}
        last   == IF braces = {} THEN 0
                  ELSE CHOOSE i \in braces : \A j \in braces : j <= i
    IN  SubSeq(tag, last + 1, Len(tag))

\* the loop over the items of a terminal group: propdata
RECURSIVE PropData(_)
PropData(items) ==
    IF items = <<>> THEN EmptyDict
    ELSE LET item == items[Len(items)]
         IN  DictSet(PropData(SubSeq(items, 1, Len(items) - 1)),
                     TagName(item.tag), item.text)

NS == <<"{", "h", "}">>
Item(name, text) == [tag |-> NS \o name, text |-> text, kids |-> <<>>]
Group(name, kids) == [tag |-> NS \o name, text |-> None, kids |-> kids]

T123 == StrV(<<"1", "2", "3">>)
T00123 == StrV(<<"0", "0", "1", "2", "3">>)
T9A == StrV(<<"9", "A">>)
T7B == StrV(<<"7", "B">>)
T8C == StrV(<<"8", "C">>)
T44 == StrV(<<"4", "4">>)
TMansku == StrV(<<"M", "a", "n", "s", "k", "u">>)
T81 == StrV(<<"8", "1">>)
T5 == StrV(<<"5">>)
T2p5 == StrV(<<"2", ".", "5">>)
TAbove == StrV(<<"8", "1", ".", "0", "0", "0", "0", "0", "0", "3">>)
TBelow == StrV(<<"8", "0", ".", "9", "9", "9", "9", "9", "9", "7">>)
TNegAbove == StrV(<<"-", "8", "0", ".", "9", "9", "9", "9", "9", "9", "7">>)
TNegBelow == StrV(<<"-", "8", "1", ".", "0", "0", "0", "0", "0", "0", "3">>)
T091 == StrV(<<"0", "9", "1">>)
T00100 == StrV(<<"0", "0", "1", "0", "0">>)

rak == <<"r", "a", "k">>
\* the terminal groups the documents are made of (every number stays
\* below 2^31 / Scale, the range of the fixed-point floats)
F1 == Group(rak, <<Item(vtj_prt, T123), Item(katu, TMansku), Item(osno1, TAbove)>>)
F2 == Group(rak, <<Item(vtj_prt, T123), Item(katu, TMansku), Item(osno1, T5)>>)
F3 == Group(rak, <<Item(vtj_prt, T123), Item(osno1, T2p5), Item(kiitun, T091)>>)
F4 == Group(rak, <<[tag |-> vtj_prt, text |-> T9A, kids |-> <<>>],
                   Item(katu, TMansku), Item(osno1, T81), Item(posno, T00100)>>)
F5 == Group(rak, <<Item(vtj_prt, T00123), Item(katu, None), Item(osno1, TBelow)>>)
F6 == Group(rak, <<Item(katu, TMansku), Item(osno1, T5)>>)
F7 == Group(rak, <<Item(vtj_prt, T7B), Item(kerala, TNegAbove)>>)
F8 == Group(rak, <<Item(vtj_prt, T8C), Item(katu, TMansku), Item(kerala, TNegBelow)>>)
Features == {F1, F3, F4, F5, F6, F7, F8}

\* a child with zero items
Empty == Group(rak, <<>>)
mem == <<"m", "e", "m">>
\* one more level of grouping above the terminal groups
M1 == Group(mem, <<F1, F2>>)
M2 == Group(mem, <<F4, F7>>)
Level1 == Features \cup {Empty, M1, M2}

SeqsUpTo(S, n) == UNION {[1..m -> S] : m \in 0..n}
Root(kids) == Group(<<"r", "o", "o", "t">>, kids)
\* the documents a file or the server may hold
Docs == {Root(ks) : ks \in SeqsUpTo(Level1, MaxKids)}
\* the trees the caller passes to xmltodict on the finished object
CallerTrees == {Root(<<F2>>), Root(<<F8, F6>>)}
\* file and server hold <<doc>>, or nothing
NoDoc == <<>>

Modes == {"file", "stream", "download"}
LookupIds == {T123, T00123, T44}
NoResult == <<"noresult">>

Init ==
    /\ mode \in Modes
    /\ \E doc \in Docs :
        /\ file = IF mode = "file" THEN <<doc>> ELSE NoDoc
        /\ server = IF mode = "file" THEN NoDoc ELSE <<doc>>
    /\ pc = "init"
    /\ stack = <<>>
    /\ properties = EmptyDict
    /\ propkeys = <<>>
    /\ duplicates = <<>>
    /\ address = EmptyDict
    /\ k = 1
    /\ calls = 0
    /\ seen = <<>>
    /\ err = "none"
    /\ result = NoResult

env == <<mode, file, server>>
store == <<properties, propkeys, duplicates>>

(***************************************************************************)
(* HSYdatabase.__init__ and the methods it calls                           *)
(***************************************************************************)
\* an exception leaves the running call: out of __init__ no object exists,
\* out of a later call the caller still holds the object
Raise(e) ==
    /\ err' = e
    /\ stack' = <<>>
    /\ pc' = IF calls = 0 THEN "crashed" ELSE "done"

\* self.xmltodict(tree) is entered
EnterXmltodict(tree) ==
    /\ stack' = <<[node |-> tree, i |-> 1]>>
    /\ pc' = "flatten"

\* def stream_HSY(self, street=None): the parameters after self
StreamHSYParams == <<"street">>
\* self.stream_HSY(fname, street) in write_to_file: the arguments passed
WriteToFileArgs == <<"fname", "street">>
\* a call with more positional arguments than parameters raises TypeError
CallAccepted(params, args) == Len(args) <= Len(params)

\* fname given, download False: self.create_fromfile(fname)
create_fromfile ==
    /\ pc = "init" /\ mode = "file"
    /\ IF file = NoDoc
       THEN Raise("FileNotFoundError")
       ELSE EnterXmltodict(file[1]) /\ err' = err
    /\ UNCHANGED <<env, store, address, k, calls, seen, result>>

\* fname None: self.create_fromstream(street)
create_fromstream ==
    /\ pc = "init" /\ mode = "stream"
    /\ IF server = NoDoc
       THEN Raise("ServiceException")
       ELSE EnterXmltodict(server[1]) /\ err' = err
    /\ UNCHANGED <<env, store, address, k, calls, seen, result>>

\* fname given, download True: self.write_HSY(fname, street), which calls
\* write_to_file and then create_fromfile
write_HSY ==
    /\ pc = "init" /\ mode = "download"
    /\ IF ~CallAccepted(StreamHSYParams, WriteToFileArgs)
       THEN Raise("TypeError") /\ file' = file
       ELSE IF server = NoDoc
       THEN Raise("ServiceException") /\ file' = file
       ELSE /\ file' = server
            /\ EnterXmltodict(server[1])
            /\ err' = err
    /\ UNCHANGED <<mode, server, store, address, k, calls, seen, result>>

Top == stack[Len(stack)]
Child == Top.node.kids[Top.i]
Advanced == [stack EXCEPT ![Len(stack)].i = Top.i + 1]

\* the for loop of one xmltodict call is exhausted: return
xmltodict_return ==
    /\ pc = "flatten" /\ Top.i > Len(Top.node.kids)
    /\ stack' = SubSeq(stack, 1, Len(stack) - 1)
    /\ IF Len(stack) = 1
       THEN /\ pc' = IF calls = 0 THEN "index" ELSE "done"
            /\ k' = 1
       ELSE UNCHANGED <<pc, k>>
    /\ UNCHANGED <<env, store, address, calls, seen, err, result>>

\* child[0] on a child without items
xmltodict_nochild ==
    /\ pc = "flatten" /\ Top.i <= Len(Top.node.kids)
    /\ Len(Child.kids) = 0
    /\ Raise("IndexError")
    /\ UNCHANGED <<env, store, address, k, calls, seen, result>>

\* len(child[0]) != 0: self.xmltodict(child)
xmltodict_recurse ==
    /\ pc = "flatten" /\ Top.i <= Len(Top.node.kids)
    /\ Len(Child.kids) > 0 /\ Len(Child.kids[1].kids) # 0
    /\ stack' = Append(Advanced, [node |-> Child, i |-> 1])
    /\ UNCHANGED <<env, pc, store, address, k, calls, seen, err, result>>

IsTerminal ==
    /\ pc = "flatten" /\ Top.i <= Len(Top.node.kids)
    /\ Len(Child.kids) > 0 /\ Len(Child.kids[1].kids) = 0

\* mutant: the membership test always fails, every Record is assigned
KeyExistsNever(d, key) == FALSE

\* self.properties[key] in the try block does not raise
KeyExists(d, key) == key \in DOMAIN d

\* propdata has no 'vtj_prt': KeyError in the try block, and again in the
\* except block
xmltodict_nokey ==
    /\ IsTerminal
    /\ LET propdata == PropData(Child.kids)
       IN  /\ vtj_prt \notin DOMAIN propdata
           /\ seen' = Append(seen, propdata)
    /\ Raise("KeyError")
    /\ UNCHANGED <<env, store, address, k, calls, result>>

\* the identifier is a key already: self.duplicates.append(Property(propdata))
xmltodict_duplicate ==
    /\ IsTerminal
    /\ LET propdata == PropData(Child.kids)
       IN  /\ vtj_prt \in DOMAIN propdata
           /\ KeyExists(properties, propdata[vtj_prt])
           /\ duplicates' = Append(duplicates, Property(propdata))
           /\ seen' = Append(seen, propdata)
    /\ stack' = Advanced
    /\ UNCHANGED <<env, pc, properties, propkeys, address, k, calls, err, result>>

\* except: self.properties[propdata['vtj_prt']] = Property(propdata)
xmltodict_insert ==
    /\ IsTerminal
    /\ LET propdata == PropData(Child.kids)
       IN  /\ vtj_prt \in DOMAIN propdata
           /\ ~KeyExists(properties, propdata[vtj_prt])
           /\ properties' = DictSet(properties, propdata[vtj_prt], Property(propdata))
           /\ propkeys' = KeysAfterSet(propkeys, propdata[vtj_prt])
           /\ seen' = Append(seen, propdata)
    /\ stack' = Advanced
    /\ UNCHANGED <<env, pc, duplicates, address, k, calls, err, result>>

\* mutant: the identifier is put in front of the list (insert(0, key))
AddressAddFront(a, street, number, key) ==
    LET old == IF street \in DOMAIN a /\ number \in DOMAIN a[street]
               THEN a[street][number] ELSE <<>>
        row == IF street \in DOMAIN a THEN a[street] ELSE EmptyDict
    IN  DictSet(a, street, DictSet(row, number, <<key>> \o old))

\* the body of create_addressdict's loop for one (key, element)
AddressAdd(a, street, number, key) ==
    LET a1 == IF street \in DOMAIN a THEN a ELSE DictSet(a, street, EmptyDict)
        a2 == IF number \in DOMAIN a1[street] THEN a1
              ELSE DictSet(a1, street, DictSet(a1[street], number, <<>>))
    IN  DictSet(a2, street,
                DictSet(a2[street], number, Append(a2[street][number], key)))

create_addressdict_step ==
    /\ pc = "index" /\ k <= Len(propkeys)
    /\ LET key == propkeys[k]
           adr == PropertyAddress(properties[key])
       IN  address' = AddressAdd(address, adr[1], adr[2], key)
    /\ k' = k + 1
    /\ UNCHANGED <<env, pc, stack, store, calls, seen, err, result>>

\* the loop is exhausted; __init__ (or the caller's call) returns
create_addressdict_return ==
    /\ pc = "index" /\ k > Len(propkeys)
    /\ pc' = "done"
    /\ UNCHANGED <<env, stack, store, address, k, calls, seen, err, result>>

(***************************************************************************)
(* The caller uses the finished object                                     *)
(***************************************************************************)
\* mutant: the newest Record with the identifier is searched for in
\* duplicates before properties
LookupRecordLatest(props, dups, identifier) ==
    LET hits == {i \in 1..Len(dups) :
                    /\ vtj_prt \in DOMAIN dups[i]
                    /\ dups[i][vtj_prt] = AttrValue(vtj_prt, identifier)}
    IN  IF hits # {} THEN <<"ok", dups[CHOOSE i \in hits : \A j \in hits : j <= i]>>
        ELSE IF identifier \in DOMAIN props THEN <<"ok", props[identifier]>>
        ELSE <<"KeyError">>

\* self.properties[identifier]
LookupRecord(props, dups, identifier) ==
    IF identifier \in DOMAIN props THEN <<"ok", props[identifier]>>
    ELSE <<"KeyError">>

\* mutant: the lookup takes the Record out of the dict (properties.pop)
get_propertyobj_pop(identifier) ==
    /\ pc = "done"
    /\ result' = <<"get_propertyobj", identifier>>
                    \o (IF identifier \in DOMAIN properties
                        THEN <<"ok", properties[identifier]>> ELSE <<"KeyError">>)
    /\ properties' = [x \in DOMAIN properties \ {identifier} |-> properties[x]]
    /\ propkeys' = SelectSeq(propkeys, LAMBDA x : x # identifier)
    /\ UNCHANGED <<env, pc, stack, duplicates, address, k, calls, seen, err>>

get_propertyobj(identifier) ==
    /\ pc = "done"
    /\ result' = <<"get_propertyobj", identifier>>
                    \o LookupRecord(properties, duplicates, identifier)
    /\ UNCHANGED <<env, pc, stack, store, address, k, calls, seen, err>>

get_propertyaddress(identifier) ==
    /\ pc = "done"
    /\ LET r == LookupRecord(properties, duplicates, identifier)
       IN  result' = <<"get_propertyaddress", identifier>>
                        \o (IF r[1] = "ok" THEN <<"ok", PropertyAddress(r[2])>> ELSE r)
    /\ UNCHANGED <<env, pc, stack, store, address, k, calls, seen, err>>

\* the caller calls db.create_addressdict() again
call_create_addressdict ==
    /\ pc = "done" /\ calls < MaxCalls
    /\ calls' = calls + 1
    /\ pc' = "index" /\ k' = 1
    /\ err' = "none" /\ result' = NoResult
    /\ UNCHANGED <<env, stack, store, address, seen>>

\* the caller calls db.xmltodict(etree)
call_xmltodict(etree) ==
    /\ pc = "done" /\ calls < MaxCalls
    /\ calls' = calls + 1
    /\ EnterXmltodict(etree)
    /\ err' = "none" /\ result' = NoResult
    /\ UNCHANGED <<env, store, address, k, seen>>

Next ==
    \/ create_fromfile
    \/ create_fromstream
    \/ write_HSY
    \/ xmltodict_return
    \/ xmltodict_nochild
    \/ xmltodict_recurse
    \/ xmltodict_nokey
    \/ xmltodict_duplicate
    \/ xmltodict_insert
    \/ create_addressdict_step
    \/ create_addressdict_return
    \/ \E identifier \in LookupIds : get_propertyobj(identifier)
    \/ \E identifier \in LookupIds : get_propertyaddress(identifier)
    \/ call_create_addressdict
    \/ \E etree \in CallerTrees : call_xmltodict(etree)

Spec == Init /\ [][Next]_vars

(***************************************************************************)
(* Properties                                                              *)
(***************************************************************************)
data == <<properties, propkeys, duplicates, address>>
\* __init__ has returned and the caller has called no build method since
Constructed == pc = "done" /\ calls = 0

HasId(g) == vtj_prt \in DOMAIN g
\* the terminal groups that carry an identifier, in encounter order
Keyed == SelectSeq(seen, HasId)
IdOf(i) == Keyed[i][vtj_prt]
IsFirst(i) == \A j \in 1..(i - 1) : IdOf(j) # IdOf(i)
FirstGroup(id) == Keyed[CHOOSE i \in 1..Len(Keyed) : IdOf(i) = id /\ IsFirst(i)]
\* the Records of the groups that repeat an earlier identifier, among the
\* first n keyed groups
RECURSIVE Repeats(_)
Repeats(n) ==
    IF n = 0 THEN <<>>
    ELSE IF IsFirst(n) THEN Repeats(n - 1)
    ELSE Append(Repeats(n - 1), Property(Keyed[n]))

\* C1: every field whose name contains "tun" or is vtj_prt or posno is
\* stored on the Record as the original input string, numeric-looking or
\* not.
C1_IdentifiersVerbatim ==
    \A id \in DOMAIN properties :
        \A key \in DOMAIN properties[id] :
            IsIdentifierKey(key) => properties[id][key] = FirstGroup(id)[key]

\* the integer nearest to v, and v's distance from it, in units
Nearest(v) == (v + Scale \div 2) \div Scale
Distance(v) ==
    LET d == v - Nearest(v) * Scale IN IF d < 0 THEN 0 - d ELSE d

\* C2: a non-identifier field whose text parses as a number v is stored as
\* the integer round(v) when v is within 1e-6 of its nearest integer, and
\* as the float v otherwise.
C2_NearIntegerRounded ==
    \A id \in DOMAIN properties :
        \A key \in DOMAIN properties[id] :
            LET p == ParseFloat(FirstGroup(id)[key])
            IN  (~IsIdentifierKey(key) /\ p.ok) =>
                    properties[id][key] =
                        IF Distance(p.v) < Eps THEN IntV(Nearest(p.v)) ELSE FloatV(p.v)

\* C3: each identifier is a key of properties once and maps to the Record
\* of the first group seen with it; the Records of all later groups with
\* an identifier already seen are duplicates, in encounter order.
C3_FirstSeenWins ==
    /\ DOMAIN properties = {IdOf(i) : i \in 1..Len(Keyed)}
    /\ \A i \in 1..Len(Keyed) :
           IsFirst(i) => properties[IdOf(i)] = Property(Keyed[i])
    /\ duplicates = Repeats(Len(Keyed))
    /\ DOMAIN properties = {propkeys[i] : i \in 1..Len(propkeys)}
    /\ \A i, j \in 1..Len(propkeys) : propkeys[i] = propkeys[j] => i = j

\* three groups with one identifier have been flattened: two Records, not
\* the same, are in duplicates
C3_Witness ==
    /\ Constructed
    /\ Len(duplicates) >= 2
    /\ duplicates[1] # duplicates[2]
    /\ Cardinality(DOMAIN properties) = 1

\* the four-case rule: a missing field is the absent-marker
RuleStreet(p) == IF katu \in DOMAIN p THEN p[katu] ELSE None
RuleNumber(p) == IF osno1 \in DOMAIN p THEN p[osno1] ELSE None
InBucket(id, street, number) ==
    /\ street \in DOMAIN address
    /\ number \in DOMAIN address[street]
    /\ \E i \in 1..Len(address[street][number]) : address[street][number][i] = id

\* C4: after construction every Record of properties has its identifier in
\* address[street][number], street and number given by the four-case rule.
C4_AddressComplete ==
    Constructed =>
        \A id \in DOMAIN properties :
            InBucket(id, RuleStreet(properties[id]), RuleNumber(properties[id]))

\* Records with only katu, only osno1 and with neither have been indexed
C4_Witness ==
    /\ Constructed
    /\ \E id \in DOMAIN properties :
           katu \in DOMAIN properties[id] /\ osno1 \notin DOMAIN properties[id]
    /\ \E id \in DOMAIN properties :
           katu \notin DOMAIN properties[id]

\* C5: a lookup by identifier gives the Record stored under it (for
\* get_propertyaddress, that Record's address), which is the Record of the
\* first group seen with the identifier, never one of duplicates; an
\* identifier that is no key of properties gives KeyError.
C5_LookupFirstRecord ==
    result # NoResult =>
        LET id == result[2]
        IN  IF \E i \in 1..Len(Keyed) : IdOf(i) = id
            THEN /\ id \in DOMAIN properties
                 /\ result[3] = "ok"
                 /\ result[4] =
                        IF result[1] = "get_propertyobj"
                        THEN Property(FirstGroup(id))
                        ELSE <<RuleStreet(Property(FirstGroup(id))),
                               RuleNumber(Property(FirstGroup(id)))>>
                 /\ properties[id] = Property(FirstGroup(id))
            ELSE /\ id \notin DOMAIN properties
                 /\ result[3] = "KeyError"

\* an identifier with a differing Record in duplicates has been looked up
C5_Witness ==
    /\ result # NoResult
    /\ result[1] = "get_propertyobj"
    /\ result[3] = "ok"
    /\ \E i \in 1..Len(Keyed) :
           IdOf(i) = result[2] /\ ~IsFirst(i) /\ Property(Keyed[i]) # result[4]

\* C6 as stated: once construction has finished nothing changes properties,
\* duplicates or address.
C6_ImmutableAfterConstruction ==
    [][(pc = "done" \/ calls > 0) => UNCHANGED data]_vars

\* C6, amended: a step that gives the caller a lookup result leaves
\* properties, duplicates and address unchanged.
C6_LookupsOnlyRead ==
    [][(result' # result /\ result' # NoResult) => UNCHANGED data]_vars

\* a lookup has succeeded on an indexed database
C6_Witness ==
    /\ pc = "done"
    /\ result # NoResult
    /\ result[1] = "get_propertyaddress"
    /\ result[3] = "ok"
    /\ address # EmptyDict

\* C7: construction with fname and download=True saves the server's data to
\* the file and goes on to read it; it does not end in stream_HSY's
\* TypeError.
C7_DownloadSavesAndReads ==
    (mode = "download" /\ pc # "init") => (file = server /\ err # "TypeError")

\* C8: after a terminal group without vtj_prt has been met, no exception
\* has ended the build and the group is in neither properties nor
\* duplicates.
C8_MissingIdSkipped ==
    (seen # <<>> /\ ~HasId(seen[Len(seen)])) =>
        /\ err = "none"
        /\ pc # "crashed"
        /\ Len(propkeys) + Len(duplicates) = Len(Keyed)

\* the traversal is about to examine a child with zero items
AtEmptyChild ==
    /\ pc = "flatten"
    /\ Top.i <= Len(Top.node.kids)
    /\ Len(Child.kids) = 0

\* C9: a child with zero items is taken as a terminal group with an empty
\* field-map, and the traversal goes on to its siblings without raising.
C9_EmptyChildHandled ==
    [][AtEmptyChild =>
          /\ seen' = Append(seen, EmptyDict)
          /\ pc' = "flatten"
          /\ err' = "none"
          /\ stack' = Advanced]_vars

Buckets == {<<s, n>> \in (DOMAIN address) \X (UNION {DOMAIN address[s] : s \in DOMAIN address}) :
               n \in DOMAIN address[s]}
Places(id) ==
    {<<b, i>> \in Buckets \X (1..Len(propkeys)) :
        i <= Len(address[b[1]][b[2]]) /\ address[b[1]][b[2]][i] = id}
KeyPos(id) == CHOOSE i \in 1..Len(propkeys) : propkeys[i] = id

\* C10: after construction every bucket of address is non-empty, every
\* identifier of properties occurs exactly once over all buckets, and the
\* identifiers of a bucket are in the order of insertion into properties.
C10_Buckets ==
    Constructed =>
        /\ \A b \in Buckets : address[b[1]][b[2]] # <<>>
        /\ \A b \in Buckets : Len(address[b[1]][b[2]]) <= Len(propkeys)
        /\ \A id \in DOMAIN properties : Cardinality(Places(id)) = 1
        /\ \A b \in Buckets :
               LET ids == address[b[1]][b[2]]
               IN  \A i, j \in 1..Len(ids) :
                       /\ ids[i] \in DOMAIN properties
                       /\ (i < j => KeyPos(ids[i]) < KeyPos(ids[j]))

\* two Records share a bucket and a third has another
C10_Witness ==
    /\ Constructed
    /\ \E b \in Buckets : Len(address[b[1]][b[2]]) >= 2
    /\ Cardinality(Buckets) >= 2

====
